---- MODULE Spec2Model ----
(***************************************************************************)
(* Model of src/kaggle_etl_dag.py: the five tasks of DAG kaggle_etl_dag    *)
(* (download, extract, stage into MySQL, transform, load into PostgreSQL), *)
(* the two tables they share and the XCom hand-off between them.           *)
(*                                                                         *)
(* Cell values.  A pandas cell is modelled as a record of one shape:       *)
(*   NaN            an empty CSV cell (pandas NaN / None)                  *)
(*   Num(x)         a number, held in tenths (Num(15) is 1.5)              *)
(*   Str(s)         a text that is not a number                            *)
(*   Txt3(p,a,b,c)  the text "a p b p c" (three numeric fields joined by   *)
(*                  the separator p), used for dates                       *)
(* A record (one CSV row) is a function from column names to cells; a      *)
(* DataFrame is a sequence of records over the same columns.               *)
(*                                                                         *)
(* What lies outside the source is modelled as follows: both tables store  *)
(* and return cells verbatim; table kaggle_data_staging has no uniqueness  *)
(* constraint; portofolio.online_order has the uniqueness constraint on    *)
(* Order_Number that ON CONFLICT (Order_Number) requires; each statement   *)
(* executed on a connection is committed on its own; the scheduler runs    *)
(* the tasks of one DAG run in the declared order and retries a failed     *)
(* task `retries` times.                                                   *)
(***************************************************************************)
EXTENDS Integers, Sequences, FiniteSets, Bags, TLC

\* ---------------------------------------------------------------- bounds
MaxBatchLen == 2
MaxRuns == 2
MaxKey == 3

\* default_args['retries']
Retries == 1

Runs == 1..MaxRuns
\* the two DAG runs that overlap in time in SpecConc
ConcRuns == {1, 2}

\* ---------------------------------------------------------------- cells
NaN == [t |-> "nan", n |-> 0, s |-> "", f |-> <<>>]
Num(x) == [t |-> "num", n |-> x, s |-> "", f |-> <<>>]
Str(x) == [t |-> "str", n |-> 0, s |-> x, f |-> <<>>]
Txt3(p, a, b, c) == [t |-> "txt3", n |-> 0, s |-> p, f |-> <<a, b, c>>]

isna(v) == v.t = "nan"

\* ---------------------------------------------------------------- schema
\* the header of Online-eCommerce.csv, as the statement in
\* load_transformed_data_to_postgresql and the fillna/rename of transform_data
\* name its columns
CsvHeader ==
  {"Order_Number", "State_Code", "Customer_Name", "Order_Date", "Status",
   "Product", "Category", "Brand", "Cost", "Sales", "Quantity", "Total_Cost",
   "Total_Sales", "Assigned Supervisor"}

\* the bind parameters of upsert_sql
DestColumns ==
  {"Order_Number", "State_Code", "Customer_Name", "Order_Date", "Status",
   "Product", "Category", "Brand", "Cost", "Sales", "Quantity", "Total_Cost",
   "Total_Sales", "Assigned_Supervisor"}

\* DataFrame(records).columns
Columns(df) == UNION {DOMAIN df[i] : i \in DOMAIN df}

Restrict(rec, cols) == [c \in cols |-> rec[c]]

\* ---------------------------------------------------------------- inputs
CsvRow(on, date, cost, sales, status) ==
  [c \in CsvHeader |->
     CASE c = "Order_Number" -> on
       [] c = "Order_Date" -> date
       [] c = "Cost" -> cost
       [] c = "Sales" -> sales
       [] c = "Status" -> status
       [] c = "Quantity" -> NaN
       [] OTHER -> Str("x")]

RowA == CsvRow(Num(10), Txt3("/", 31, 1, 2024), Num(100), Num(200), Str("Shipped"))
RowB == CsvRow(Num(15), Txt3("-", 2024, 1, 31), Str("n/a"), Num(200), NaN)
RowC == CsvRow(Num(20), Txt3("/", 31, 2, 2024), NaN, Num(200), Str("Shipped"))
RowD == CsvRow(Num(-10), Txt3("/", 1, 12, 2024), Num(100), Num(200), Str("Shipped"))
RowE == CsvRow(Str("abc"), Txt3("/", 31, 1, 2024), Num(100), Num(200), Str("Shipped"))
RowF == CsvRow(Num(30), Txt3("/", 31, 1, 2024), Num(100), NaN, Str("Shipped"))
RowG == CsvRow(Str("abc"), Txt3("/", 31, 1, 2024), NaN, Num(200), Str("Shipped"))

RowPool == {RowA, RowB, RowC, RowD, RowE, RowF, RowG}

\* the columns a source file may lack
DroppedColumns == {{}, {"Order_Number"}, {"Order_Date"}, {"Cost"}}

SeqsUpTo(S, n) == UNION {[1..k -> S] : k \in 0..n}

\* the possible contents of Online-eCommerce.csv
SourceFiles ==
  {[i \in DOMAIN rows |-> Restrict(rows[i], CsvHeader \ drop)] :
     rows \in SeqsUpTo(RowPool, MaxBatchLen), drop \in DroppedColumns}

\* a row loaded into portofolio.online_order by an earlier load
LegacyRow ==
  [c \in DestColumns |->
     CASE c = "Order_Number" -> Str("1")
       [] c = "Order_Date" -> Txt3("-", 2023, 5, 6)
       [] c \in {"Cost", "Sales", "Quantity", "Total_Cost", "Total_Sales"} -> Num(10)
       [] OTHER -> Str("legacy")]

InitStaging == {EmptyBag, SetToBag({RowA})}
InitDest == {EmptyBag, SetToBag({LegacyRow})}

\* ---------------------------------------------------------------- pandas
\* the rows of df at the indices in K, in their order
RECURSIVE TakeFrom(_, _, _)
TakeFrom(df, K, i) ==
  IF i > Len(df) THEN <<>>
  ELSE (IF i \in K THEN <<df[i]>> ELSE <<>>) \o TakeFrom(df, K, i + 1)

Take(df, K) == TakeFrom(df, K, 1)

SeqToBag(df) ==
  LET rows == {df[i] : i \in DOMAIN df}
  IN  [r \in rows |-> Cardinality({i \in DOMAIN df : df[i] = r})]

\* Series.isin(values): NaN is in a list that holds NaN
isin(v, values) == v \in values

\* DataFrame.drop_duplicates(): the first of each group of equal rows is kept
drop_duplicates(df) ==
  Take(df, {i \in DOMAIN df : \A j \in 1..(i - 1) : df[j] # df[i]})

IsLeap(y) == (y % 4 = 0 /\ y % 100 # 0) \/ y % 400 = 0

DaysIn(m, y) ==
  IF m = 2 THEN (IF IsLeap(y) THEN 29 ELSE 28)
  ELSE IF m \in {4, 6, 9, 11} THEN 30 ELSE 31

\* pd.to_datetime(v, format='%d/%m/%Y', errors='coerce').strftime('%Y-%m-%d')
FormatOrderDate(v) ==
  IF /\ v.t = "txt3"
     /\ v.s = "/"
     /\ v.f[2] \in 1..12
     /\ v.f[3] \in 1..9999
     /\ v.f[1] \in 1..DaysIn(v.f[2], v.f[3])
  THEN Txt3("-", v.f[3], v.f[2], v.f[1])
  ELSE NaN

\* DataFrame.rename(columns={old: new}); a frame without column old is unchanged
rename(rec, old, new) ==
  IF old \in DOMAIN rec
  THEN [c \in (DOMAIN rec \ {old}) \cup {new} |-> IF c = new THEN rec[old] ELSE rec[c]]
  ELSE rec

\* pd.to_numeric(v, errors='coerce')
to_numeric(v) == IF v.t = "num" THEN v ELSE NaN

\* whether astype(int) accepts the value
IntCoercible(v) == v.t = "num"

\* float -> int truncates towards zero (values are held in tenths)
TruncToInt(x) == IF x >= 0 THEN x \div 10 ELSE -((-x) \div 10)

\* astype(str) alone: the text of the value as held (1.5 held as 15)
CanonicalOrderNumber_NoIntCast(v) == Str(ToString(v.n))

\* v.astype(int).astype(str), for a value astype(int) accepts
CanonicalOrderNumber(v) == Str(ToString(TruncToInt(v.n)))

\* the dict given to staged_data.fillna
FillDefaults ==
  [State_Code |-> Str("Unknown"), Customer_Name |-> Str("Unknown"),
   Status |-> Str("Unknown"), Product |-> Str("Unknown"),
   Category |-> Str("Unknown"), Brand |-> Str("Unknown"),
   Quantity |-> Num(0), Total_Cost |-> Num(0), Total_Sales |-> Num(0),
   Assigned_Supervisor |-> Str("Unknown")]

fillna(rec) ==
  [c \in DOMAIN rec |->
     IF c \in DOMAIN FillDefaults /\ isna(rec[c]) THEN FillDefaults[c] ELSE rec[c]]

\* DataFrame.dropna(subset=cols): the rows with no NaN in cols
dropna(df, cols) ==
  Take(df, {i \in DOMAIN df : \A c \in cols : ~isna(df[i][c])})

\* ---------------------------------------------------------------- transform_data
\* subset=['Cost']: Sales left out of the dropna
CriticalFields_CostOnly == {"Cost"}

\* the subset of staged_data.dropna
CriticalFields == {"Cost", "Sales"}

\* the rows transform_data coerces: after drop_duplicates, the date format,
\* the rename and the dropna
CleanCandidates(staged) ==
  LET dated == [i \in DOMAIN drop_duplicates(staged) |->
                  [drop_duplicates(staged)[i] EXCEPT
                     !["Order_Date"] = FormatOrderDate(@)]]
      renamed == [i \in DOMAIN dated |->
                    rename(dated[i], "Assigned Supervisor", "Assigned_Supervisor")]
  IN  dropna(renamed, CriticalFields)

CleanRecord(rec) ==
  fillna([rec EXCEPT !["Cost"] = to_numeric(@),
                     !["Sales"] = to_numeric(@),
                     !["Order_Number"] = CanonicalOrderNumber(@)])

\* transform_data without the check for column Order_Date
TransformData_NoDateGuard(staged) ==
  IF ~(({"Order_Date"} \cup CriticalFields) \subseteq Columns(staged))
  THEN [err |-> "KeyError", pushed |-> FALSE, out |-> <<>>]
  ELSE LET kept == CleanCandidates(staged)
       IN  IF \E i \in DOMAIN kept : ~IntCoercible(kept[i]["Order_Number"])
           THEN [err |-> "ValueError", pushed |-> FALSE, out |-> <<>>]
           ELSE [err |-> "none", pushed |-> TRUE,
                 out |-> [i \in DOMAIN kept |-> CleanRecord(kept[i])]]

\* transform_data on the pulled staged_data: the exception it raises ("none" for
\* a normal return), whether it pushes transformed_data, and the value pushed
TransformData(staged) ==
  IF "Order_Date" \notin Columns(staged)
  THEN [err |-> "none", pushed |-> FALSE, out |-> <<>>]
  ELSE IF ~(CriticalFields \subseteq Columns(staged))
  THEN [err |-> "KeyError", pushed |-> FALSE, out |-> <<>>]
  ELSE LET kept == CleanCandidates(staged)
       IN  IF \E i \in DOMAIN kept : ~IntCoercible(kept[i]["Order_Number"])
           THEN [err |-> "ValueError", pushed |-> FALSE, out |-> <<>>]
           ELSE [err |-> "none", pushed |-> TRUE,
                 out |-> [i \in DOMAIN kept |-> CleanRecord(kept[i])]]

\* ---------------------------------------------------------------- tables
\* the query returns no row
StagedOrderNumbers_NoRows(table) == {}

\* SELECT Order_Number FROM kaggle_data_staging
StagedOrderNumbers(table) == {r["Order_Number"] : r \in BagToSet(table)}

\* the check skipped: the frame is taken to hold the column
HasOrderNumber_Unchecked(df) == TRUE

\* 'Order_Number' in extracted_data.columns
HasOrderNumber(df) == "Order_Number" \in Columns(df)

\* the mask not negated: the rows already staged are taken as new
NewData_MaskNotNegated(extracted, existing) ==
  Take(extracted, {i \in DOMAIN extracted :
                     isin(extracted[i]["Order_Number"], existing)})

\* extracted_data[~extracted_data['Order_Number'].isin(existing_data['Order_Number'])]
NewData(extracted, existing) ==
  Take(extracted, {i \in DOMAIN extracted :
                     ~isin(extracted[i]["Order_Number"], existing)})

\* a plain INSERT into a table without the constraint
UpsertRow_PlainInsert(table, rec) ==
  table (+) SetToBag({Restrict(rec, DestColumns)})

\* ON CONFLICT (Order_Number) DO UPDATE: the row held is replaced
UpsertRow_Overwrite(table, rec) ==
  LET kept == {d \in BagToSet(table) : d["Order_Number"] # rec["Order_Number"]}
  IN  [d \in kept |-> table[d]] (+) SetToBag({Restrict(rec, DestColumns)})

\* INSERT ... ON CONFLICT (Order_Number) DO NOTHING, for one row
UpsertRow(table, rec) ==
  IF \E d \in BagToSet(table) : d["Order_Number"] = rec["Order_Number"]
  THEN table
  ELSE table (+) SetToBag({Restrict(rec, DestColumns)})

\* ---------------------------------------------------------------- state
VARIABLES
  source,      \* the rows of Online-eCommerce.csv as the dataset holds them
  staging,     \* MySQL table kaggle_data_staging, a bag of rows
  dest,        \* PostgreSQL table portofolio.online_order, a bag of rows
  pc,          \* per DAG run: the task it is at, or idle / success / failed
  tries,       \* per DAG run: the retries its current task has used
  err,         \* per DAG run: the last exception a task raised ("none")
  xcom,        \* per DAG run: the XCom values pushed, and the keys pushed
  existing,    \* per DAG run: existing_data['Order_Number'] of load_data_to_mysql
  idx,         \* per DAG run: the row the upsert loop is at
  destAtStart  \* per DAG run: dest when the run was triggered (history only)

vars == <<source, staging, dest, pc, tries, err, xcom, existing, idx, destAtStart>>

FilePath == "/opt/airflow/data/online-ecommerce/Online-eCommerce.csv"

NoXCom ==
  [file_path |-> "", extracted_data |-> <<>>, staged_data |-> <<>>,
   transformed_data |-> <<>>, keys |-> {}]

\* pd.DataFrame(ti.xcom_pull(key=key)): a key never pushed pulls None, an empty frame
PullFrame(r, key) == IF key \in xcom[r].keys THEN xcom[r][key] ELSE <<>>

Init ==
  /\ source \in SourceFiles
  /\ staging \in InitStaging
  /\ dest \in InitDest
  /\ pc = [r \in Runs |-> "idle"]
  /\ tries = [r \in Runs |-> 0]
  /\ err = [r \in Runs |-> "none"]
  /\ xcom = [r \in Runs |-> NoXCom]
  /\ existing = [r \in Runs |-> {}]
  /\ idx = [r \in Runs |-> 1]
  /\ destAtStart = [r \in Runs |-> EmptyBag]

\* a task returns: the scheduler starts the next task of the run
Succeed(r, next) ==
  /\ pc' = [pc EXCEPT ![r] = next]
  /\ tries' = [tries EXCEPT ![r] = 0]
  /\ err' = [err EXCEPT ![r] = "none"]

\* a task raises exc: the scheduler runs it again from its start (retries: 1),
\* then marks the run failed
Raise(r, task, exc) ==
  /\ pc' = [pc EXCEPT ![r] = IF tries[r] < Retries THEN task ELSE "failed"]
  /\ tries' = [tries EXCEPT ![r] = IF tries[r] < Retries THEN @ + 1 ELSE @]
  /\ err' = [err EXCEPT ![r] = exc]

\* a DAG run is triggered (schedule_interval=None) once the run before it ended
Trigger(r) ==
  /\ pc[r] = "idle"
  /\ \A q \in 1..(r - 1) : pc[q] \in {"success", "failed"}
  /\ pc' = [pc EXCEPT ![r] = "download_kaggle_data"]
  /\ destAtStart' = [destAtStart EXCEPT ![r] = dest]
  /\ UNCHANGED <<source, staging, dest, tries, err, xcom, existing, idx>>

\* a DAG run is triggered while another may be running
TriggerConc(r) ==
  /\ pc[r] = "idle"
  /\ pc' = [pc EXCEPT ![r] = "download_kaggle_data"]
  /\ destAtStart' = [destAtStart EXCEPT ![r] = dest]
  /\ UNCHANGED <<source, staging, dest, tries, err, xcom, existing, idx>>

download_kaggle_data(r) ==
  /\ pc[r] = "download_kaggle_data"
  /\ xcom' = [xcom EXCEPT ![r].file_path = FilePath, ![r].keys = @ \cup {"file_path"}]
  /\ Succeed(r, "extract_data")
  /\ UNCHANGED <<source, staging, dest, existing, idx, destAtStart>>

extract_data(r) ==
  /\ pc[r] = "extract_data"
  /\ xcom[r].file_path = FilePath
  /\ xcom' = [xcom EXCEPT ![r].extracted_data = source,
                          ![r].keys = @ \cup {"extracted_data"}]
  /\ Succeed(r, "load_data_to_mysql")
  /\ UNCHANGED <<source, staging, dest, existing, idx, destAtStart>>

\* load_data_to_mysql up to the SELECT: the column check, then existing_data
StageQuery(r) ==
  /\ pc[r] = "load_data_to_mysql"
  /\ IF ~HasOrderNumber(PullFrame(r, "extracted_data"))
     THEN /\ Raise(r, "load_data_to_mysql", "ValueError")
          /\ UNCHANGED existing
     ELSE /\ existing' = [existing EXCEPT ![r] = StagedOrderNumbers(staging)]
          /\ pc' = [pc EXCEPT ![r] = "load_data_to_mysql:to_sql"]
          /\ UNCHANGED <<tries, err>>
  /\ UNCHANGED <<source, staging, dest, xcom, idx, destAtStart>>

\* load_data_to_mysql from new_data on: the append and the push of staged_data
StageAppend(r) ==
  /\ pc[r] = "load_data_to_mysql:to_sql"
  /\ LET new_data == NewData(PullFrame(r, "extracted_data"), existing[r])
     IN  /\ staging' = IF new_data # <<>> THEN staging (+) SeqToBag(new_data)
                       ELSE staging
         /\ xcom' = [xcom EXCEPT ![r].staged_data = new_data,
                                 ![r].keys = @ \cup {"staged_data"}]
  /\ Succeed(r, "transform_data")
  /\ UNCHANGED <<source, dest, existing, idx, destAtStart>>

transform_data(r) ==
  /\ pc[r] = "transform_data"
  /\ LET res == TransformData(PullFrame(r, "staged_data"))
     IN  IF res.err # "none"
         THEN /\ Raise(r, "transform_data", res.err)
              /\ UNCHANGED <<xcom, idx>>
         ELSE /\ xcom' = IF res.pushed
                         THEN [xcom EXCEPT ![r].transformed_data = res.out,
                                           ![r].keys = @ \cup {"transformed_data"}]
                         ELSE xcom
              /\ idx' = [idx EXCEPT ![r] = 1]
              /\ Succeed(r, "load_transformed_data_to_postgresql")
  /\ UNCHANGED <<source, staging, dest, existing, destAtStart>>

\* one turn of the loop of load_transformed_data_to_postgresql
LoadRow(r) ==
  /\ pc[r] = "load_transformed_data_to_postgresql"
  /\ idx[r] <= Len(PullFrame(r, "transformed_data"))
  /\ dest' = UpsertRow(dest, PullFrame(r, "transformed_data")[idx[r]])
  /\ idx' = [idx EXCEPT ![r] = @ + 1]
  /\ UNCHANGED <<source, staging, pc, tries, err, xcom, existing, destAtStart>>

\* the loop of load_transformed_data_to_postgresql ends and the task returns
LoadDone(r) ==
  /\ pc[r] = "load_transformed_data_to_postgresql"
  /\ idx[r] > Len(PullFrame(r, "transformed_data"))
  /\ Succeed(r, "success")
  /\ UNCHANGED <<source, staging, dest, xcom, existing, idx, destAtStart>>

\* a store cannot be reached: the statement at hand raises and the task fails
ConnectionLost(r) ==
  /\ \/ pc[r] = "load_transformed_data_to_postgresql"
     \/ pc[r] = "load_data_to_mysql:to_sql"
     \/ /\ pc[r] = "load_data_to_mysql"
        /\ HasOrderNumber(PullFrame(r, "extracted_data"))
  /\ Raise(r, IF pc[r] = "load_transformed_data_to_postgresql"
              THEN pc[r] ELSE "load_data_to_mysql", "ConnectionError")
  /\ idx' = [idx EXCEPT ![r] = 1]
  /\ UNCHANGED <<source, staging, dest, xcom, existing, destAtStart>>

Step(r) ==
  \/ download_kaggle_data(r)
  \/ extract_data(r)
  \/ StageQuery(r)
  \/ StageAppend(r)
  \/ transform_data(r)
  \/ LoadRow(r)
  \/ LoadDone(r)
  \/ ConnectionLost(r)

Next == \E r \in Runs : Trigger(r) \/ Step(r)

NextConc == \E r \in ConcRuns : TriggerConc(r) \/ Step(r)

\* DAG runs one after the other
Spec == Init /\ [][Next]_vars

\* two DAG runs that overlap in time
SpecConc == Init /\ [][NextConc]_vars

\* ---------------------------------------------------------------- properties
OrderNumbers(table) == {d["Order_Number"] : d \in BagToSet(table)}

\* the number of rows of table with Order_Number k
KeyCount(table, k) ==
  BagCardinality([d \in {e \in BagToSet(table) : e["Order_Number"] = k} |-> table[d]])

UniqueOrderNumbers(table) == \A k \in OrderNumbers(table) : KeyCount(table, k) = 1

LatestRun(r) == \A q \in Runs : q > r => pc[q] = "idle"

\* C1: when two DAG runs in succession both complete over the same source, the
\* destination after the second is the destination after the first, and the
\* destination never holds two rows with one Order_Number.
C1_Idempotent ==
  /\ UniqueOrderNumbers(dest)
  /\ \A r \in Runs :
       (r > 1 /\ pc[r] = "success" /\ LatestRun(r)) =>
         (pc[r - 1] = "success" => dest = destAtStart[r])

\* the first run loaded rows, the second completed and changed nothing
C1_Witness ==
  /\ pc[1] = "success" /\ pc[2] = "success" /\ LatestRun(2)
  /\ dest # destAtStart[1]
  /\ xcom[1].transformed_data # <<>>
  /\ dest = destAtStart[2]

\* C2: whatever the interleaving of two DAG runs, the destination holds at most
\* one row per Order_Number.
C2_DestUniqueUnderRace == \A k \in OrderNumbers(dest) : KeyCount(dest, k) <= 1

\* both runs queried before either appended, both staged RowA, both completed
C2_Witness ==
  /\ pc[1] = "success" /\ pc[2] = "success"
  /\ CopiesIn(RowA, staging) = 2
  /\ xcom[1].staged_data = xcom[2].staged_data
  /\ RowA \in {xcom[1].staged_data[i] : i \in DOMAIN xcom[1].staged_data}
  /\ KeyCount(dest, Str("1")) = 1

\* C3: the query reads the Order_Numbers the staging table holds; the append
\* adds exactly the extracted rows whose Order_Number the query did not return,
\* with their fields as extracted, and pushes exactly those rows as staged_data;
\* no step removes or changes a staging row, and the pushed rows stay as
\* pushed while the later tasks run.
C3_StagingBatchExact ==
  [][\A r \in Runs :
       /\ (pc[r] = "load_data_to_mysql" /\ pc'[r] = "load_data_to_mysql:to_sql") =>
            existing'[r] = {d["Order_Number"] : d \in BagToSet(staging)}
       /\ (pc[r] = "load_data_to_mysql:to_sql" /\ pc'[r] = "transform_data") =>
            LET unseen(rec) == rec["Order_Number"] \notin existing[r]
                batch == SelectSeq(xcom[r].extracted_data, unseen)
            IN  /\ staging' = staging (+) SeqToBag(batch)
                /\ "staged_data" \in xcom'[r].keys
                /\ xcom'[r].staged_data = batch
       /\ pc[r] \in {"transform_data", "load_transformed_data_to_postgresql"} =>
            xcom'[r].staged_data = xcom[r].staged_data
       /\ \A d \in BagToSet(staging) : CopiesIn(d, staging') >= CopiesIn(d, staging)
    ]_vars

\* RowA was staged before, the file holds RowA and RowC: only RowC is staged
C3_Witness ==
  /\ source = <<RowA, RowC>>
  /\ pc[1] = "transform_data"
  /\ xcom[1].staged_data = <<RowC>>
  /\ staging = SetToBag({RowA, RowC})

Rows(df) == {df[i] : i \in DOMAIN df}

\* a staged record with neither Cost nor Sales empty
HasCostAndSales(rec) ==
  /\ {"Cost", "Sales"} \subseteq DOMAIN rec
  /\ rec["Cost"].t # "nan"
  /\ rec["Sales"].t # "nan"

\* row is what cleaning makes of the staged record rec
CleanedFrom(row, rec) ==
  /\ rec["Order_Number"].t = "num"
  /\ row["Order_Number"] = Str(ToString(TruncToInt(rec["Order_Number"].n)))
  /\ row["Cost"] = (IF rec["Cost"].t = "num" THEN rec["Cost"] ELSE NaN)
  /\ row["Sales"] = (IF rec["Sales"].t = "num" THEN rec["Sales"] ELSE NaN)

\* C5: every record of the transform output comes from a staged record with
\* neither Cost nor Sales empty, the output holds no more records than there
\* are such staged records, and every row a step adds to the destination comes
\* from such a staged record of some run.
C5_MissingCostSalesExcluded ==
  [][/\ \A r \in Runs :
          "transformed_data" \in xcom'[r].keys =>
            LET out == xcom'[r].transformed_data
                in == xcom'[r].staged_data
            IN  /\ \A i \in DOMAIN out :
                     \E j \in DOMAIN in :
                       HasCostAndSales(in[j]) /\ CleanedFrom(out[i], in[j])
                /\ Len(out) <= Cardinality({j \in DOMAIN in : HasCostAndSales(in[j])})
     /\ \A d \in BagToSet(dest') :
          CopiesIn(d, dest') > CopiesIn(d, dest) =>
            \E r \in Runs :
              \E rec \in Rows(xcom[r].staged_data) :
                HasCostAndSales(rec) /\ CleanedFrom(d, rec)
    ]_vars

\* RowC (no Cost) and RowD were staged; RowD alone was cleaned and loaded
C5_Witness ==
  /\ source = <<RowC, RowD>>
  /\ pc[1] = "success"
  /\ xcom[1].staged_data = <<RowC, RowD>>
  /\ Len(xcom[1].transformed_data) = 1
  /\ destAtStart[1] = EmptyBag
  /\ OrderNumbers(dest) = {Str("-1")}

\* the decimal texts of the integers lo..hi
IntTexts(lo, hi) == {Str(ToString(n)) : n \in lo..hi}

C7_SkipOnConflict ==
  [][\A r \in Runs :
       /\ idx'[r] = idx[r] + 1 =>
            LET rec == xcom[r].transformed_data[idx[r]]
                held == {d \in BagToSet(dest) : d["Order_Number"] = rec["Order_Number"]}
            IN  /\ held # {} => dest' = dest
                /\ held = {} => dest' = dest (+) SetToBag({[c \in DestColumns |-> rec[c]]})
                /\ pc'[r] = pc[r]
                /\ err'[r] = err[r]
       /\ pc'[r] = "success" =>
            \A rec \in Rows(xcom'[r].transformed_data) :
              KeyCount(dest', rec["Order_Number"]) = 1
    ]_vars

\* the legacy row "1" was held: RowA was skipped and the legacy row kept, then
\* RowD was added
C7_Witness ==
  /\ source = <<RowA, RowD>>
  /\ pc[1] = "success"
  /\ Len(xcom[1].transformed_data) = 2
  /\ destAtStart[1] = SetToBag({LegacyRow})
  /\ CopiesIn(LegacyRow, dest) = 1
  /\ OrderNumbers(dest) = {Str("1"), Str("-1")}
  /\ BagCardinality(dest) = 2

\* the run staged no new row, or staged rows without column Order_Date
ShortCircuit(r) ==
  /\ "staged_data" \in xcom[r].keys
  /\ \/ xcom[r].staged_data = <<>>
     \/ \E rec \in Rows(xcom[r].staged_data) : "Order_Date" \notin DOMAIN rec

\* C8: once a run has staged no new row, or rows without Order_Date, its
\* transform pushes no record, neither the transform nor the upsert raises
\* (a lost connection aside), and the destination stays as it was when the
\* run started.
C8_ShortCircuitsAreNoOps ==
  \A r \in Runs :
    (ShortCircuit(r) /\ LatestRun(r)) =>
      /\ "transformed_data" \notin xcom[r].keys
      /\ err[r] \in {"none", "ConnectionError"}
      /\ dest = destAtStart[r]
      /\ pc[r] = "failed" => err[r] = "ConnectionError"

\* run 1 staged rows without Order_Date and completed; run 2 found no new row
\* and completed
C8_Witness ==
  /\ pc[1] = "success" /\ pc[2] = "success"
  /\ ShortCircuit(1) /\ xcom[1].staged_data # <<>>
  /\ ShortCircuit(2) /\ xcom[2].staged_data = <<>>
  /\ Len(source) = 2
  /\ dest = destAtStart[1]

\* C9 as stated: the staging table holds at most one row per Order_Number.
C9_StagingUnique ==
  \A k \in OrderNumbers(staging) : KeyCount(staging, k) <= 1

\* C9 as amended: no step adds a row whose Order_Number the staging table
\* already holds; an Order_Number held more than once was held more than once
\* by the one batch that first staged it.
C9_NoRestaging ==
  [][\A k \in OrderNumbers(staging) : KeyCount(staging', k) = KeyCount(staging, k)]_vars

\* RowA was held; of the batch RowA, RowC only RowC was added
C9_Witness ==
  /\ source = <<RowA, RowC>>
  /\ pc[1] = "success"
  /\ CopiesIn(RowA, staging) = 1
  /\ CopiesIn(RowC, staging) = 1
  /\ BagCardinality(staging) = 2

\* C10: once a run after a failed run has completed, every record the failed
\* run staged that has Cost and Sales and an Order_Number an integer can be
\* made of has its Order_Number in the destination.
C10_NoStagedRecordLost ==
  \A q \in Runs : \A r \in Runs :
    (q < r /\ pc[q] = "failed" /\ pc[r] = "success") =>
      \A rec \in Rows(xcom[q].staged_data) :
        (/\ rec \in BagToSet(staging)
         /\ "Order_Date" \in DOMAIN rec
         /\ HasCostAndSales(rec)
         /\ rec["Order_Number"].t = "num") =>
          Str(ToString(TruncToInt(rec["Order_Number"].n))) \in OrderNumbers(dest)

====
